---- MODULE Spec2Model ----
(***************************************************************************)
(* GAMDL audio tools: the bulk quality scanner (check.py) and the          *)
(* single-file metadata inspector (metadata.py).                           *)
(*                                                                         *)
(* Text is modelled as sequences of one-character strings, so that         *)
(* str(), lower(), strip(), the glob match and the `in` substring test     *)
(* are computed the way Python computes them.                              *)
(***************************************************************************)
EXTENDS Integers, Sequences, FiniteSets, TLC

VARIABLES
    \* ---- classifier run (get_audio_quality + the detailed bucket update)
    c_pc, c_bitrate, c_quality, c_stats,
    \* ---- resolver run (get_audio_bitrate on one file)
    r_pc, r_file, r_result,
    \* ---- directory scan run (the rglob loop over audio_extensions)
    s_pc, s_tree, s_fold, s_ext, audio_found,
    \* ---- inspector label run (the quality table of get_audio_info)
    l_pc, l_sample_rate, l_bitrate, l_quality,
    \* ---- inspector run (metadata.py, get_audio_info on one path)
    i_pc, i_file, i_out, i_opened, i_quality,
    \* ---- scanner program (check.py, main and the three reports)
    pc,             \* "menu", "loop", "returned", "exited", "crashed", "off"
    choice,         \* the stripped menu input last read
    rounds,         \* menu inputs read so far
    mode,           \* the report running or last run: "detailed", "quick", "folder", "none"
    ended,          \* how the last report left: "none", "running", "complete", "empty",
                    \* "no_folder", "missing_folder", "aborted"
    fold,           \* the platform's glob folds case
    audio_files,    \* the discovered files, in scan order
    idx,            \* files the loop has been through
    quality_stats,  \* detailed report: the six counters
    label_stats,    \* quick summary: quality_stats, label -> count, in insertion order
    bitrate_groups, \* folder report: label -> files, in insertion order
    total_size,     \* bytes (the code keeps MB)
    out,            \* lines printed since the menu input was read
    opened, statted \* metadata reader and stat calls made by the report

c_vars == <<c_pc, c_bitrate, c_quality, c_stats>>
r_vars == <<r_pc, r_file, r_result>>
s_vars == <<s_pc, s_tree, s_fold, s_ext, audio_found>>
l_vars == <<l_pc, l_sample_rate, l_bitrate, l_quality>>
i_vars == <<i_pc, i_file, i_out, i_opened, i_quality>>
m_vars == <<pc, choice, rounds, mode, ended, fold, audio_files, idx, quality_stats,
            label_stats, bitrate_groups, total_size, out, opened, statted>>
vars == <<c_vars, r_vars, s_vars, l_vars, i_vars, m_vars>>

(***************************************************************************)
(* Bounds                                                                  *)
(***************************************************************************)
MaxBitrate == 330      \* kbps values 0..MaxBitrate are classified
MaxFiles == 2          \* paths beneath the root a report scans
MaxTree == 2           \* paths beneath the root in the scan run
MaxRounds == 2         \* menu inputs read in one run of the program
MaxDelta == 1          \* distance from each threshold of the inspector's table

(***************************************************************************)
(* Text helpers                                                            *)
(***************************************************************************)
Digit == <<"0", "1", "2", "3", "4", "5", "6", "7", "8", "9">>

\* str(n) for a non-negative int
RECURSIVE Str(_)
Str(n) == IF n < 10 THEN <<Digit[n + 1]>> ELSE Str(n \div 10) \o <<Digit[(n % 10) + 1]>>

\* Python's  sub in s  on strings
Contains(sub, s) ==
    \E i \in 0..(Len(s) - Len(sub)) : SubSeq(s, i + 1, i + Len(sub)) = sub

\* s.endswith(suf)
EndsWith(s, suf) ==
    /\ Len(suf) <= Len(s)
    /\ SubSeq(s, Len(s) - Len(suf) + 1, Len(s)) = suf

\* str.lower(), on the letters
UpperLetters == <<"A", "B", "C", "D", "E", "F", "G", "H", "I", "J", "K", "L", "M",
                  "N", "O", "P", "Q", "R", "S", "T", "U", "V", "W", "X", "Y", "Z">>
LowerLetters == <<"a", "b", "c", "d", "e", "f", "g", "h", "i", "j", "k", "l", "m",
                  "n", "o", "p", "q", "r", "s", "t", "u", "v", "w", "x", "y", "z">>
LowerChar(c) ==
    IF \E i \in 1..26 : UpperLetters[i] = c
    THEN LowerLetters[CHOOSE i \in 1..26 : UpperLetters[i] = c]
    ELSE c
Lower(s) == [i \in 1..Len(s) |-> LowerChar(s[i])]

\* A character the console encoding cannot encode (a lone surrogate from a
\* file name that is not valid UTF-8): print() of a text holding it raises
\* UnicodeEncodeError.
BadChar == "\\udcff"
Printable(text) == \A i \in 1..Len(text) : text[i] # BadChar

(***************************************************************************)
(* check.py: get_audio_quality                                             *)
(***************************************************************************)
KBPS == <<"k", "b", "p", "s">>
L320 == <<"3", "2", "0">> \o KBPS
L256 == <<"2", "5", "6">> \o KBPS
L192 == <<"1", "9", "2">> \o KBPS
L128 == <<"1", "2", "8">> \o KBPS
QualityWord == <<"Q", "u", "a", "l", "i", "t", "y">>
LowQualityText == <<"L", "o", "w", " ">> \o QualityWord
HighLabel == L320 \o <<" ", "(", "H", "i", "g", "h", " ">> \o QualityWord \o <<")">>
GoodLabel == L256 \o <<" ", "(", "G", "o", "o", "d", " ">> \o QualityWord \o <<")">>
MediumLabel == L192 \o <<" ", "(", "M", "e", "d", "i", "u", "m", " ">> \o QualityWord \o <<")">>
StandardLabel ==
    L128 \o <<" ", "(", "S", "t", "a", "n", "d", "a", "r", "d", " ">> \o QualityWord \o <<")">>
UnknownLabel == <<"U", "n", "k", "n", "o", "w", "n", " ">> \o QualityWord
LowLabel(b) == Str(b) \o KBPS \o <<" ", "(">> \o LowQualityText \o <<")">>

\* a classifier that forgets the 256 rung
get_audio_quality_no256(bitrate) ==
    IF bitrate >= 320 THEN HighLabel
    ELSE IF bitrate >= 192 THEN MediumLabel
    ELSE IF bitrate >= 128 THEN StandardLabel
    ELSE IF bitrate > 0 THEN LowLabel(bitrate)
    ELSE UnknownLabel

get_audio_quality(bitrate) ==
    IF bitrate >= 320 THEN HighLabel
    ELSE IF bitrate >= 256 THEN GoodLabel
    ELSE IF bitrate >= 192 THEN MediumLabel
    ELSE IF bitrate >= 128 THEN StandardLabel
    ELSE IF bitrate > 0 THEN LowLabel(bitrate)
    ELSE UnknownLabel

(***************************************************************************)
(* check.py: check_audio_quality, the quality_stats table and its update   *)
(***************************************************************************)
Buckets == {"High", "Good", "Medium", "Standard", "Low", "Unknown"}

\* quality_stats = {...: 0}, keyed here by a short name for each of the six keys
EmptyStats == [k \in Buckets |-> 0]

\* the bucket test matching on the threshold digits without the leading one
BucketOfLoose(quality) ==
    IF Contains(<<"2", "0">> \o KBPS, quality) THEN "High"
    ELSE IF Contains(<<"5", "6">> \o KBPS, quality) THEN "Good"
    ELSE IF Contains(<<"9", "2">> \o KBPS, quality) THEN "Medium"
    ELSE IF Contains(<<"2", "8">> \o KBPS, quality) THEN "Standard"
    ELSE IF Contains(LowQualityText, quality) THEN "Low"
    ELSE "Unknown"

\* the if/elif chain choosing the key to increment
BucketOf(quality) ==
    IF Contains(L320, quality) THEN "High"
    ELSE IF Contains(L256, quality) THEN "Good"
    ELSE IF Contains(L192, quality) THEN "Medium"
    ELSE IF Contains(L128, quality) THEN "Standard"
    ELSE IF Contains(LowQualityText, quality) THEN "Low"
    ELSE "Unknown"

UpdateStats(stats, quality) ==
    [stats EXCEPT ![BucketOf(quality)] = @ + 1]

(***************************************************************************)
(* Files.  A file is a record:                                             *)
(*   name      file_path.name, as text                                     *)
(*   parent    file_path.parent.name, as text                              *)
(*   isDir     the path is a directory                                     *)
(*   statOk    file_path.stat() succeeds (FALSE: a dangling symlink, a     *)
(*             file removed since the scan)                                *)
(*   size      st_size in bytes                                            *)
(*   open      what the metadata reader does: "ok", "raises", or "none"    *)
(*             (mutagen.File found no matching container type)             *)
(*   hasTags   the opened object is truthy (it holds at least one tag)     *)
(*   hasBitrate, bitrate    audio.info.bitrate, bits per second            *)
(*   hasLength, lengthMs    audio.info.length, here in milliseconds        *)
(***************************************************************************)
EXT_MP3 == <<".", "m", "p", "3">>
EXT_M4A == <<".", "m", "4", "a">>
EXT_MP4 == <<".", "m", "p", "4">>
EXT_FLAC == <<".", "f", "l", "a", "c">>
EXT_WAV == <<".", "w", "a", "v">>
EXT_WAVE == <<".", "w", "a", "v", "e">>
EXT_AAC == <<".", "a", "a", "c">>
EXT_OGG == <<".", "o", "g", "g">>
EXT_WMA == <<".", "w", "m", "a">>
EXT_OPUS == <<".", "o", "p", "u", "s">>
EXT_TXT == <<".", "t", "x", "t">>

\* PurePath.suffix: the text from the last dot of the name, unless that dot
\* is the first or the last character
LastDot(name) ==
    IF \E i \in 1..Len(name) : name[i] = "."
    THEN CHOOSE i \in 1..Len(name) :
            name[i] = "." /\ \A j \in (i + 1)..Len(name) : name[j] # "."
    ELSE 0
Suffix(name) ==
    IF 1 < LastDot(name) /\ LastDot(name) < Len(name)
    THEN SubSeq(name, LastDot(name), Len(name))
    ELSE <<>>

(***************************************************************************)
(* check.py: get_audio_bitrate                                             *)
(* The result records whether the call raised, the value returned, the     *)
(* lines printed and the reader and stat calls made.                       *)
(***************************************************************************)
ErrorReadingLine == "Error reading {file_path.name}: {e}"

Returned(v, nOpen, nStat) ==
    [raised |-> FALSE, value |-> v, out |-> <<>>, opened |-> nOpen, statted |-> nStat]

\* except Exception as e: print(...); return 0
Caught(f, nOpen, nStat) ==
    IF Printable(f.name)
    THEN [raised |-> FALSE, value |-> 0, out |-> <<ErrorReadingLine>>,
          opened |-> nOpen, statted |-> nStat]
    ELSE [raised |-> TRUE, value |-> 0, out |-> <<>>,
          opened |-> nOpen, statted |-> nStat]

\* bitrate // 1000 of the field, 0 for a missing field
DirectKbps(f) == (IF f.hasBitrate THEN f.bitrate ELSE 0) \div 1000

\* int((file_size * 8) / (duration * 1000)), duration in seconds
DerivedKbps(f, nOpen) ==
    IF ~f.statOk THEN Caught(f, nOpen, 1)
    ELSE IF (IF f.hasLength THEN f.lengthMs ELSE 0) > 0
         THEN Returned((f.size * 8) \div f.lengthMs, nOpen, 1)
         ELSE Returned(0, nOpen, 1)

get_audio_bitrate(f) ==
    LET file_ext == Lower(Suffix(f.name)) IN
    IF file_ext \in {EXT_M4A, EXT_MP4, EXT_MP3} THEN
        IF f.open = "raises" THEN Caught(f, 1, 0)
        ELSE Returned(DirectKbps(f), 1, 0)
    ELSE IF file_ext = EXT_FLAC THEN
        IF f.open = "raises" THEN Caught(f, 1, 0)
        ELSE IF f.hasBitrate THEN Returned(f.bitrate \div 1000, 1, 0)
        ELSE DerivedKbps(f, 1)
    ELSE IF file_ext \in {EXT_WAV, EXT_WAVE} THEN
        IF f.open = "raises" THEN Caught(f, 1, 0)
        ELSE DerivedKbps(f, 1)
    ELSE IF file_ext \in {EXT_AAC, EXT_OGG, EXT_OPUS, EXT_WMA} THEN  \* File(): may be None
        IF f.open = "raises" THEN Caught(f, 1, 0)
        ELSE IF f.open = "ok" /\ f.hasTags /\ f.hasBitrate
             THEN Returned(f.bitrate \div 1000, 1, 0)
             ELSE Returned(0, 1, 0)
    ELSE Returned(0, 0, 0)

(***************************************************************************)
(* check.py: the directory scan (lines 77-85, 168-176, 210-214)            *)
(* A tree is the sequence of all paths beneath the root, at any depth, in  *)
(* the order the walk yields them.                                         *)
(***************************************************************************)
audio_extensions ==
    <<EXT_MP3, EXT_M4A, EXT_FLAC, EXT_WAV, EXT_AAC, EXT_OGG, EXT_WMA, EXT_OPUS>>

\* a name against the pattern "*" + ext: the platform's glob folds case on
\* Windows and does not on POSIX
GlobMatch(name, ext, foldCase) ==
    IF foldCase THEN EndsWith(Lower(name), Lower(ext)) ELSE EndsWith(name, ext)

\* root.rglob(f"*{ext}"): every path beneath the root whose name matches
RGlob(tree, ext, foldCase) ==
    SelectSeq(tree, LAMBDA f : GlobMatch(f.name, ext, foldCase))

\* for ext in audio_extensions: audio_files.extend(root.rglob(f"*{ext}")), from
\* the i-th extension on
RECURSIVE ScanFrom(_, _, _)
ScanFrom(tree, foldCase, i) ==
    IF i > Len(audio_extensions) THEN <<>>
    ELSE RGlob(tree, audio_extensions[i], foldCase) \o ScanFrom(tree, foldCase, i + 1)

ScanAll(tree, foldCase) == ScanFrom(tree, foldCase, 1)

(***************************************************************************)
(* check.py: the per-file loop bodies.  Each takes the report's state      *)
(*   [stats, labels, groups, total, out, opened, statted, crashed]         *)
(* and one file, and gives the state after the iteration; crashed means    *)
(* an exception left the loop.                                             *)
(***************************************************************************)
FileNameLine == "{audio_file.name}"
LocationLine == "   Location: {audio_file.parent.name}/"
SizeLine == "   Size: {file_size:.2f} MB"
BitrateLine == "   Bitrate: {bitrate} kbps"
QualityLine == "   Quality: {quality}"
BlankLine == ""
ErrorCheckingLine == "Error checking {audio_file.name}: {e}"

\* dict[key] = dict.get(key, 0) + 1 on an insertion-ordered dict
Incr(d, key) ==
    IF \E i \in 1..Len(d) : d[i].quality = key
    THEN [i \in 1..Len(d) |->
            IF d[i].quality = key THEN [d[i] EXCEPT !.count = @ + 1] ELSE d[i]]
    ELSE Append(d, [quality |-> key, count |-> 1])

\* if quality not in groups: groups[quality] = []; groups[quality].append(f)
AddToGroup(g, key, f) ==
    IF \E i \in 1..Len(g) : g[i].quality = key
    THEN [i \in 1..Len(g) |->
            IF g[i].quality = key THEN [g[i] EXCEPT !.files = Append(@, f)] ELSE g[i]]
    ELSE Append(g, [quality |-> key, files |-> <<f>>])

\* lines 129-134, as far as they get: the texts printed, and whether one raised
FileBlock(f) ==
    IF ~Printable(f.name) THEN [lines |-> <<>>, raised |-> TRUE]
    ELSE IF ~Printable(f.parent) THEN [lines |-> <<FileNameLine>>, raised |-> TRUE]
    ELSE [lines |-> <<FileNameLine, LocationLine, SizeLine, BitrateLine, QualityLine,
                      BlankLine>>,
          raised |-> FALSE]

\* lines 136-139 of the detailed report
DetailedExcept(st, f) ==
    IF ~Printable(f.name) THEN [st EXCEPT !.crashed = TRUE]
    ELSE [st EXCEPT !.out = @ \o <<ErrorCheckingLine, BlankLine>>,
                    !.stats = [@ EXCEPT !["Unknown"] = @ + 1]]

\* lines 107-139 of check_audio_quality, one iteration
DetailedFile(st, f) ==
    IF ~f.statOk THEN DetailedExcept([st EXCEPT !.statted = @ + 1], f)
    ELSE
      LET r == get_audio_bitrate(f)
          s1 == [st EXCEPT !.statted = @ + 1 + r.statted, !.opened = @ + r.opened,
                           !.total = @ + f.size, !.out = @ \o r.out]
      IN IF r.raised THEN DetailedExcept(s1, f)
         ELSE
           LET s2 == [s1 EXCEPT !.stats = UpdateStats(@, get_audio_quality(r.value)),
                                !.out = @ \o FileBlock(f).lines]
           IN IF FileBlock(f).raised THEN DetailedExcept(s2, f) ELSE s2

\* lines 223-234 of quick_quality_check, one iteration
QuickFile(st, f) ==
    IF ~f.statOk
    THEN [st EXCEPT !.statted = @ + 1, !.labels = Incr(@, UnknownLabel)]
    ELSE
      LET r == get_audio_bitrate(f)
          s1 == [st EXCEPT !.statted = @ + 1 + r.statted, !.opened = @ + r.opened,
                           !.total = @ + f.size, !.out = @ \o r.out]
      IN IF r.raised THEN [s1 EXCEPT !.labels = Incr(@, UnknownLabel)]
         ELSE [s1 EXCEPT !.labels = Incr(@, get_audio_quality(r.value))]

\* lines 187-197 of check_specific_folder, one iteration
FolderFile(st, f) ==
    LET r == get_audio_bitrate(f)
        s1 == [st EXCEPT !.statted = @ + r.statted, !.opened = @ + r.opened,
                         !.out = @ \o r.out]
    IN IF r.raised
       THEN (IF ~Printable(f.name) THEN [s1 EXCEPT !.crashed = TRUE]
             ELSE [s1 EXCEPT !.out = @ \o <<ErrorCheckingLine>>])
       ELSE [s1 EXCEPT !.groups = AddToGroup(@, get_audio_quality(r.value), f)]

(***************************************************************************)
(* check.py: what each report prints after its loop                        *)
(***************************************************************************)
RuleLine == "=" \* a row of "=" characters
DashLine == "-"
SummaryTitleLine == "QUALITY SUMMARY:"
StatLine == "{quality_type}: {count} files ({percentage:.1f}%)"
TotalFilesLine == "Total files: {len(audio_files)}"
TotalSizeLine == "Total size: {total_size} MB"
QuickTitleLine == "QUICK QUALITY CHECK:"
DistributionLine == "Quality Distribution:"
GroupHeaderLine == "{quality} ({len(files)} files):"
GroupFileLine == "   {audio_file.name} ({file_size:.1f} MB)"

\* the keys of quality_stats in the order the dict literal lists them
StatKeys == <<"High", "Good", "Medium", "Standard", "Low", "Unknown">>

\* lines 142-152: one line for each counter above 0, in key order
DetailedSummaryLines(stats) ==
    <<RuleLine, SummaryTitleLine, RuleLine>>
        \o [i \in 1..Len(SelectSeq(StatKeys, LAMBDA k : stats[k] > 0)) |-> StatLine]
        \o <<TotalFilesLine, TotalSizeLine>>

\* lines 236-244: one line for each label of the table (the lines carry no
\* label here, so the sort by count does not show)
QuickSummaryLines(labels) ==
    <<QuickTitleLine, RuleLine, TotalFilesLine, TotalSizeLine, DistributionLine>>
        \o [i \in 1..Len(labels) |-> StatLine]

\* lines 202-204 for the files of one group: stat each file, print its line
RECURSIVE GroupLines(_)
GroupLines(files) ==
    IF files = <<>> THEN [lines |-> <<>>, statted |-> 0, crashed |-> FALSE]
    ELSE IF ~Head(files).statOk \/ ~Printable(Head(files).name)
         THEN [lines |-> <<>>, statted |-> 1, crashed |-> TRUE]
         ELSE LET rest == GroupLines(Tail(files))
              IN [lines |-> <<GroupFileLine>> \o rest.lines,
                  statted |-> 1 + rest.statted, crashed |-> rest.crashed]

\* lines 200-204: the groups in insertion order, until an exception leaves
RECURSIVE FolderSummaryLines(_)
FolderSummaryLines(groups) ==
    IF groups = <<>> THEN [lines |-> <<>>, statted |-> 0, crashed |-> FALSE]
    ELSE LET g == GroupLines(Head(groups).files)
         IN IF g.crashed
            THEN [lines |-> <<GroupHeaderLine>> \o g.lines, statted |-> g.statted,
                  crashed |-> TRUE]
            ELSE LET rest == FolderSummaryLines(Tail(groups))
                 IN [lines |-> <<GroupHeaderLine>> \o g.lines \o rest.lines,
                     statted |-> g.statted + rest.statted, crashed |-> rest.crashed]

(***************************************************************************)
(* check.py: what each report does between its scan and its loop           *)
(***************************************************************************)
BannerLine == "Audio Quality Checker"
NoAudioLine == "No audio files found!"
NoAudioFolderLine == "No audio files found in the specified folder!"
FoundLine == "Found {len(audio_files)} audio files"
ReportTitleLine == "Audio File Quality Report:"
CheckingLine == "Checking audio quality in: {target_folder}"
NoFolderLine == "No folder specified!"
MissingFolderLine == "Folder '{folder_path}' does not exist!"
GoodbyeLine == "Goodbye!"
InvalidLine == "Invalid choice! Please enter 1, 2, 3, or 4."

\* the empty check that prints its message and goes on into the report
AfterScanNoReturn(files, before, emptyLine, after) ==
    [pc |-> "loop",
     ended |-> IF files = <<>> THEN "empty" ELSE "running",
     out |-> before \o (IF files = <<>> THEN <<emptyLine>> ELSE <<>>) \o after]

\* if not audio_files: print(...); return  -- else the lines before the loop
AfterScan(files, before, emptyLine, after) ==
    IF files = <<>>
    THEN [pc |-> "returned", ended |-> "empty", out |-> before \o <<emptyLine>>]
    ELSE [pc |-> "loop", ended |-> "running", out |-> before \o after]

\* str.strip()
Whitespace == {" ", "\t"}
RECURSIVE LStrip(_)
LStrip(s) == IF s # <<>> /\ Head(s) \in Whitespace THEN LStrip(Tail(s)) ELSE s
RECURSIVE RStrip(_)
RStrip(s) ==
    IF s # <<>> /\ s[Len(s)] \in Whitespace THEN RStrip(SubSeq(s, 1, Len(s) - 1)) ELSE s
Strip(s) == RStrip(LStrip(s))

(***************************************************************************)
(* metadata.py: get_audio_info                                             *)
(* The file given to the inspector is a record:                            *)
(*   exists, name, statOk, open ("ok" or "raises")                         *)
(*   hasBitrate, bitrate, hasSampleRate, sample_rate   audio.info          *)
(*   tags     the values stored under \xa9nam, \xa9ART, \xa9alb, aART,     *)
(*            each [present, values]                                       *)
(*   cover    "none", "ok", or "corrupt" (Image.open raises)               *)
(***************************************************************************)
HiRes == "Hi-Res (96kHz+)"
Lossless48 == "Lossless (48kHz)"
Lossless44 == "Lossless (44.1kHz)"
HighAAC == "High Quality AAC 500kbps+"
AAC320 == "AAC 320kbps"
AAC256 == "AAC 256kbps or lower"

\* the table with the bitrate-only rows tried before the lossless rows
QualityLabelBitrateFirst(sample_rate, bitrate) ==
    IF sample_rate >= 96000 THEN HiRes
    ELSE IF bitrate >= 500000 THEN HighAAC
    ELSE IF bitrate >= 320000 THEN AAC320
    ELSE IF sample_rate >= 48000 /\ bitrate >= 2000000 THEN Lossless48
    ELSE IF sample_rate >= 44100 /\ bitrate >= 1000000 THEN Lossless44
    ELSE AAC256

\* lines 27-38
QualityLabel(sample_rate, bitrate) ==
    IF sample_rate >= 96000 THEN HiRes
    ELSE IF sample_rate >= 48000 /\ bitrate >= 2000000 THEN Lossless48
    ELSE IF sample_rate >= 44100 /\ bitrate >= 1000000 THEN Lossless44
    ELSE IF bitrate >= 500000 THEN HighAAC
    ELSE IF bitrate >= 320000 THEN AAC320
    ELSE AAC256

FileNotFoundLine == "File not found: {file_path}"
OnlySupportsLine == "Only supports .m4a or .mp4 files"
ErrorReadingFileLine == "Error reading file: {e}"
NoArtLine == "No embedded album art found"
ArtLine == "Embedded Album Art: {image_format}, {w}x{h} px, {kb} KB"
UnknownText == <<"U", "n", "k", "n", "o", "w", "n">>

\* audio.get(key, ['Unknown'])[0]
TagRaises(tag) == tag.present /\ tag.values = <<>>
TagText(tag) == IF tag.present /\ tag.values # <<>> THEN tag.values[1] ELSE UnknownText

\* the print calls of lines 60-73: each line with the text it interpolates
ReportItems(f) ==
    << [line |-> "File: {file_path.name}", text |-> f.name],
       [line |-> "Title: {title}", text |-> TagText(f.tags[1])],
       [line |-> "Artist: {artist}", text |-> TagText(f.tags[2])],
       [line |-> "Album: {album}", text |-> TagText(f.tags[3])],
       [line |-> "Album Artist: {album_artist}", text |-> TagText(f.tags[4])],
       [line |-> "Bitrate: {bitrate//1000} kbps", text |-> <<>>],
       [line |-> "Sample Rate: {sample_rate} Hz", text |-> <<>>],
       [line |-> "Duration: {m}:{ss}", text |-> <<>>],
       [line |-> "File Size: {file_size:.2f} MB", text |-> <<>>],
       [line |-> "Quality: {quality}", text |-> <<>>],
       [line |-> IF f.cover = "none" THEN NoArtLine ELSE ArtLine, text |-> <<>>] >>

FullReport(f) == [i \in 1..Len(ReportItems(f)) |-> ReportItems(f)[i].line]

\* the lines printed before the first print call that raises, if one does
RECURSIVE PrintAll(_)
PrintAll(items) ==
    IF items = <<>> THEN [lines |-> <<>>, raised |-> FALSE]
    ELSE IF ~Printable(Head(items).text) THEN [lines |-> <<>>, raised |-> TRUE]
    ELSE LET rest == PrintAll(Tail(items))
         IN [lines |-> <<Head(items).line>> \o rest.lines, raised |-> rest.raised]

InspectorResult(lines, nOpen, raised, q) ==
    [out |-> lines, opened |-> nOpen, raised |-> raised, quality |-> q]

\* lines 7-76
get_audio_info(f) ==
    IF ~f.exists THEN
        (IF Printable(f.name) THEN InspectorResult(<<FileNotFoundLine>>, 0, FALSE, "")
         ELSE InspectorResult(<<>>, 0, TRUE, ""))
    ELSE IF Lower(Suffix(f.name)) \notin {EXT_M4A, EXT_MP4} THEN
        InspectorResult(<<OnlySupportsLine>>, 0, FALSE, "")
    ELSE IF f.open # "ok" \/ ~f.statOk THEN
        InspectorResult(<<ErrorReadingFileLine>>, 1, FALSE, "")
    ELSE
      LET bitrate == IF f.hasBitrate THEN f.bitrate ELSE 0
          sample_rate == IF f.hasSampleRate THEN f.sample_rate ELSE 0
          quality == QualityLabel(sample_rate, bitrate)
          printed == PrintAll(ReportItems(f))
      IN IF (\E k \in 1..4 : TagRaises(f.tags[k])) \/ f.cover = "corrupt"
         THEN InspectorResult(<<ErrorReadingFileLine>>, 1, FALSE, quality)
         ELSE IF printed.raised
              THEN InspectorResult(printed.lines \o <<ErrorReadingFileLine>>, 1, FALSE,
                                   quality)
              ELSE InspectorResult(printed.lines, 1, FALSE, quality)

(***************************************************************************)
(* Inputs                                                                  *)
(***************************************************************************)
MakeFile(name, parent, statOk, size, open, hasTags, hasBitrate, bitrate, hasLength, lengthMs) ==
    [name |-> name, parent |-> parent, isDir |-> FALSE, statOk |-> statOk, size |-> size,
     open |-> open, hasTags |-> hasTags, hasBitrate |-> hasBitrate, bitrate |-> bitrate,
     hasLength |-> hasLength, lengthMs |-> lengthMs]

Dir == <<"d">>
BadDir == <<"d", BadChar>>

\* the paths a report's root may hold
ReportEntries ==
    { MakeFile(<<"h">> \o EXT_MP3, Dir, TRUE, 40000, "ok", TRUE, TRUE, 320000, TRUE, 1000),
      MakeFile(<<"l">> \o EXT_AAC, Dir, TRUE, 12000, "ok", TRUE, TRUE, 96000, TRUE, 1000),
      MakeFile(<<"w">> \o EXT_WAV, Dir, TRUE, 0, "ok", FALSE, FALSE, 0, TRUE, 0),
      MakeFile(<<"f">> \o EXT_FLAC, Dir, TRUE, 40000, "ok", TRUE, FALSE, 0, TRUE, 1000),
      MakeFile(<<"b">> \o EXT_OGG, Dir, TRUE, 10, "raises", FALSE, FALSE, 0, FALSE, 0),
      MakeFile(<<"g">> \o EXT_MP3, Dir, FALSE, 0, "raises", FALSE, FALSE, 0, FALSE, 0),
      MakeFile(<<"p">> \o EXT_MP3, BadDir, TRUE, 40000, "ok", TRUE, TRUE, 320000, TRUE, 1000),
      MakeFile(<<"n", BadChar>> \o EXT_MP3, Dir, TRUE, 40000, "ok", TRUE, TRUE, 256000,
               TRUE, 1000),
      MakeFile(<<"m", BadChar>> \o EXT_M4A, Dir, TRUE, 10, "raises", FALSE, FALSE, 0,
               FALSE, 0),
      MakeFile(<<"U", ".", "M", "P", "3">>, Dir, TRUE, 40000, "ok", TRUE, TRUE, 192000,
               TRUE, 1000),
      MakeFile(<<"t">> \o EXT_TXT, Dir, TRUE, 10, "ok", FALSE, FALSE, 0, FALSE, 0) }

\* the paths the scan run's root may hold
ScanEntry(name, isDir) ==
    [MakeFile(name, Dir, TRUE, 10, "ok", TRUE, TRUE, 128000, TRUE, 1000)
        EXCEPT !.isDir = isDir]
ScanEntries ==
    { ScanEntry(<<"s">> \o e, FALSE) : e \in {EXT_MP3, EXT_M4A, EXT_FLAC, EXT_OPUS, EXT_TXT} }
        \cup { ScanEntry(<<"S", "O", "N", "G", ".", "M", "P", "3">>, FALSE),
               ScanEntry(<<"s", ".", "F", "l", "a", "c">>, FALSE),
               ScanEntry(<<"s">> \o EXT_MP3 \o EXT_TXT, FALSE),
               ScanEntry(<<"s", "m", "p", "3">>, FALSE),
               ScanEntry(<<"d">> \o EXT_OGG, TRUE) }

\* the sequences of at most n distinct members of S
TreesOf(S, n) ==
    { t \in UNION { [1..k -> S] : k \in 0..n } :
        \A i, j \in 1..Len(t) : i # j => t[i] # t[j] }

RawChoices ==
    { <<"1">>, <<"2">>, <<"3">>, <<"4">>, <<" ", "4", " ">>, <<"1", "\t">>, <<>>,
      <<"5">>, <<"4", "4">>, <<"x">> }
RawFolders == { <<>>, <<" ">>, <<"d">>, <<" ", "d">> }

AnyFile == MakeFile(<<>>, <<>>, TRUE, 0, "ok", FALSE, FALSE, 0, FALSE, 0)
NoResult == [raised |-> FALSE, value |-> 0, out |-> <<>>, opened |-> 0, statted |-> 0]

(***************************************************************************)
(* The parts of the state a run does not use                               *)
(***************************************************************************)
COff == c_pc = "off" /\ c_bitrate = 0 /\ c_quality = <<>> /\ c_stats = EmptyStats
ROff == r_pc = "off" /\ r_file = AnyFile /\ r_result = NoResult
SOff == s_pc = "off" /\ s_tree = <<>> /\ s_fold = FALSE /\ s_ext = 1 /\ audio_found = <<>>
LOff == l_pc = "off" /\ l_sample_rate = 0 /\ l_bitrate = 0 /\ l_quality = ""
IOff == i_pc = "off" /\ i_file = AnyFile /\ i_out = <<>> /\ i_opened = 0 /\ i_quality = ""
MOff ==
    /\ pc = "off" /\ choice = <<>> /\ rounds = 0 /\ mode = "none" /\ ended = "none"
    /\ fold = FALSE /\ audio_files = <<>> /\ idx = 0 /\ quality_stats = EmptyStats
    /\ label_stats = <<>> /\ bitrate_groups = <<>> /\ total_size = 0 /\ out = <<>>
    /\ opened = 0 /\ statted = 0

(***************************************************************************)
(* Classifier run: one bitrate through lines 113 and 116-127 of check.py   *)
(***************************************************************************)
InitClassify ==
    /\ c_pc = "start"
    /\ c_bitrate \in 0..MaxBitrate
    /\ c_quality = <<>>
    /\ c_stats = EmptyStats
    /\ ROff /\ SOff /\ LOff /\ IOff /\ MOff

Classify ==
    /\ c_pc = "start"
    /\ c_quality' = get_audio_quality(c_bitrate)
    /\ c_pc' = "classified"
    /\ UNCHANGED <<c_bitrate, c_stats, r_vars, s_vars, l_vars, i_vars, m_vars>>

Bucket ==
    /\ c_pc = "classified"
    /\ c_stats' = UpdateStats(c_stats, c_quality)
    /\ c_pc' = "counted"
    /\ UNCHANGED <<c_bitrate, c_quality, r_vars, s_vars, l_vars, i_vars, m_vars>>

NextClassify == Classify \/ Bucket

SpecClassify == InitClassify /\ [][NextClassify]_vars

\* the tier of a bitrate by value, from the threshold table
TierOf(b) ==
    CASE b >= 320 -> "High"
      [] b >= 256 /\ b < 320 -> "Good"
      [] b >= 192 /\ b < 256 -> "Medium"
      [] b >= 128 /\ b < 192 -> "Standard"
      [] b >= 1 /\ b <= 127 -> "Low"
      [] b = 0 -> "Unknown"

\* C4: every non-negative bitrate gets exactly one label, the label of the highest
\* threshold it reaches: 320 and up High, 256..319 Good, 192..255 Medium,
\* 128..191 Standard, 1..127 the value followed by "kbps (Low Quality)", 0 Unknown.
C4_ClassifierFirstMatch ==
    c_pc # "start" =>
        /\ (c_bitrate >= 320) <=> (c_quality = HighLabel)
        /\ (c_bitrate >= 256 /\ c_bitrate < 320) <=> (c_quality = GoodLabel)
        /\ (c_bitrate >= 192 /\ c_bitrate < 256) <=> (c_quality = MediumLabel)
        /\ (c_bitrate >= 128 /\ c_bitrate < 192) <=> (c_quality = StandardLabel)
        /\ (c_bitrate = 0) <=> (c_quality = UnknownLabel)
        /\ (c_bitrate >= 1 /\ c_bitrate <= 127) <=>
              (c_quality = Str(c_bitrate) \o KBPS \o <<" ", "(">> \o LowQualityText \o <<")">>)

C4_Witness == c_pc = "classified" /\ c_bitrate = 319 /\ c_quality = GoodLabel

\* C10: in the detailed report the counter incremented by the substring tests is
\* the tier of the bitrate by value, and no other counter moves.
C10_BucketIsTier ==
    c_pc = "counted" =>
        c_stats = [k \in Buckets |-> IF k = TierOf(c_bitrate) THEN 1 ELSE 0]

C10_Witness == c_pc = "counted" /\ c_bitrate = 120 /\ c_stats["Low"] = 1

(***************************************************************************)
(* Resolver run: get_audio_bitrate applied to one file                     *)
(***************************************************************************)
ResolverNames ==
    { <<"a">> \o e : e \in {EXT_MP3, EXT_M4A, EXT_MP4, EXT_FLAC, EXT_WAV, EXT_WAVE,
                            EXT_AAC, EXT_OGG, EXT_WMA, EXT_OPUS, EXT_TXT} }
        \cup { <<"A", ".", "F", "L", "A", "C">>, <<BadChar>> \o EXT_MP3,
               <<BadChar>> \o EXT_WAV, EXT_MP3, <<"a", ".">> }

\* only mutagen.File, used for the last four extensions, can return None
GenericExts == {EXT_AAC, EXT_OGG, EXT_OPUS, EXT_WMA}
ResolverFiles ==
    { f \in [name : ResolverNames, parent : {Dir}, isDir : {FALSE},
             statOk : BOOLEAN, size : {0, 40000},
             open : {"ok", "raises", "none"}, hasTags : BOOLEAN,
             hasBitrate : BOOLEAN, bitrate : {0, 999, 320000},
             hasLength : BOOLEAN, lengthMs : {0, 1000}] :
        f.open = "none" => Lower(Suffix(f.name)) \in GenericExts }

InitResolver ==
    /\ r_pc = "start"
    /\ r_file \in ResolverFiles
    /\ r_result = NoResult
    /\ COff /\ SOff /\ LOff /\ IOff /\ MOff

Resolve ==
    /\ r_pc = "start"
    /\ r_result' = get_audio_bitrate(r_file)
    /\ r_pc' = "done"
    /\ UNCHANGED <<r_file, c_vars, s_vars, l_vars, i_vars, m_vars>>

NextResolver == Resolve

SpecResolver == InitResolver /\ [][NextResolver]_vars

DirectExts == {EXT_M4A, EXT_MP4, EXT_MP3, EXT_AAC, EXT_OGG, EXT_OPUS, EXT_WMA}

\* C3: get_audio_bitrate never raises and returns a non-negative integer, which is
\* 0 when the reader or the size lookup fails, when the bitrate field it reads is
\* missing, when the duration it divides by is 0 or unknown, and when the
\* extension is not one it handles.
C3_ResolverNeverRaises ==
    r_pc = "done" =>
        /\ ~r_result.raised
        /\ r_result.value \in Nat
        /\ (r_result.opened = 1 /\ r_file.open = "raises" => r_result.value = 0)
        /\ (r_result.statted = 1 /\ ~r_file.statOk => r_result.value = 0)
        /\ (Lower(Suffix(r_file.name)) \in DirectExts /\ ~r_file.hasBitrate
               => r_result.value = 0)
        /\ (r_result.statted = 1 /\ (~r_file.hasLength \/ r_file.lengthMs = 0)
               => r_result.value = 0)
        /\ (r_result.opened = 0 => r_result.value = 0)

(***************************************************************************)
(* Scan run: the loop of lines 83-85 over one tree                         *)
(***************************************************************************)
InitScan ==
    /\ s_pc = "scan"
    /\ s_tree \in TreesOf(ScanEntries, MaxTree)
    /\ s_fold \in BOOLEAN
    /\ s_ext = 1
    /\ audio_found = <<>>
    /\ COff /\ ROff /\ LOff /\ IOff /\ MOff

\* audio_files.extend(root.rglob(f"*{ext}")) for the next extension
ScanExt ==
    /\ s_pc = "scan"
    /\ audio_found' = audio_found \o RGlob(s_tree, audio_extensions[s_ext], s_fold)
    /\ s_ext' = s_ext + 1
    /\ s_pc' = IF s_ext = Len(audio_extensions) THEN "done" ELSE "scan"
    /\ UNCHANGED <<s_tree, s_fold, c_vars, r_vars, l_vars, i_vars, m_vars>>

NextScan == ScanExt

SpecScan == InitScan /\ [][NextScan]_vars

AudioExts == {audio_extensions[i] : i \in 1..Len(audio_extensions)}
Occurrences(x, seq) == Cardinality({i \in 1..Len(seq) : seq[i] = x})

\* C6: the scan finds, exactly once each, every file beneath the root whose
\* extension is one of the eight, compared without regard to case, and finds
\* nothing else.
C6_ScanExact ==
    s_pc = "done" =>
        \A i \in 1..Len(s_tree) :
            Occurrences(s_tree[i], audio_found) =
                IF ~s_tree[i].isDir /\ Lower(Suffix(s_tree[i].name)) \in AudioExts
                THEN 1 ELSE 0

(***************************************************************************)
(* Inspector label run: the table of lines 27-38 of metadata.py            *)
(***************************************************************************)
Around(T) == { t + d : t \in T, d \in (0 - MaxDelta)..MaxDelta }

InitLabel ==
    /\ l_pc = "start"
    /\ l_sample_rate \in Around({44100, 48000, 96000}) \cup {0}
    /\ l_bitrate \in Around({320000, 500000, 1000000, 2000000}) \cup {0, 1100000}
    /\ l_quality = ""
    /\ COff /\ ROff /\ SOff /\ IOff /\ MOff

Label ==
    /\ l_pc = "start"
    /\ l_quality' = QualityLabel(l_sample_rate, l_bitrate)
    /\ l_pc' = "done"
    /\ UNCHANGED <<l_sample_rate, l_bitrate, c_vars, r_vars, s_vars, i_vars, m_vars>>

NextLabel == Label

SpecLabel == InitLabel /\ [][NextLabel]_vars

\* C9: the inspector's label is the first matching row of the table, one label
\* for every sample rate and bitrate; 44100 Hz at 1,100,000 bps is
\* "Lossless (44.1kHz)".
C9_LabelFirstMatch ==
    l_pc = "done" =>
        /\ (l_quality = HiRes) <=> (l_sample_rate >= 96000)
        /\ (l_quality = Lossless48) <=>
              (l_sample_rate < 96000 /\ l_sample_rate >= 48000 /\ l_bitrate >= 2000000)
        /\ (l_quality = Lossless44) <=>
              (/\ l_sample_rate < 96000 /\ l_sample_rate >= 44100 /\ l_bitrate >= 1000000
               /\ ~(l_sample_rate >= 48000 /\ l_bitrate >= 2000000))
        /\ (l_quality = HighAAC) <=>
              (/\ l_sample_rate < 96000 /\ l_bitrate >= 500000
               /\ ~(l_sample_rate >= 44100 /\ l_bitrate >= 1000000))
        /\ (l_quality = AAC320) <=>
              (l_sample_rate < 96000 /\ l_bitrate >= 320000 /\ l_bitrate < 500000)
        /\ (l_quality = AAC256) <=> (l_sample_rate < 96000 /\ l_bitrate < 320000)
        /\ (l_sample_rate = 44100 /\ l_bitrate = 1100000 => l_quality = Lossless44)

C9_Witness ==
    l_pc = "done" /\ l_sample_rate = 44100 /\ l_bitrate = 1100000 /\ l_quality = Lossless44

(***************************************************************************)
(* Inspector run: get_audio_info on one path                               *)
(***************************************************************************)
TagAbsent == [present |-> FALSE, values |-> <<>>]
TagEmpty == [present |-> TRUE, values |-> <<>>]
TagGood == [present |-> TRUE, values |-> <<<<"T">>>>]
TagBad == [present |-> TRUE, values |-> <<<<"T", BadChar>>>>]

InspectorFiles ==
    [exists : BOOLEAN,
     name : { <<"a">> \o EXT_M4A, <<"A", ".", "M", "P", "4">>, <<"a">> \o EXT_TXT,
              <<BadChar>> \o EXT_M4A },
     statOk : BOOLEAN, open : {"ok", "raises"},
     hasBitrate : BOOLEAN, bitrate : {1100000},
     hasSampleRate : BOOLEAN, sample_rate : {44100},
     tags : [1..4 -> {TagAbsent, TagEmpty, TagGood, TagBad}],
     cover : {"none", "ok", "corrupt"}]

InitInspector ==
    /\ i_pc = "start"
    /\ i_file \in InspectorFiles
    /\ i_out = <<>>
    /\ i_opened = 0
    /\ i_quality = ""
    /\ COff /\ ROff /\ SOff /\ LOff /\ MOff

Inspect ==
    /\ i_pc = "start"
    /\ LET r == get_audio_info(i_file)
       IN /\ i_out' = r.out
          /\ i_opened' = r.opened
          /\ i_quality' = r.quality
          /\ i_pc' = IF r.raised THEN "raised" ELSE "done"
    /\ UNCHANGED <<i_file, c_vars, r_vars, s_vars, l_vars, m_vars>>

NextInspector == Inspect

SpecInspector == InitInspector /\ [][NextInspector]_vars

\* C8: the inspector prints either the complete report or exactly one failure
\* line and no report line: the file-not-found line alone for a missing path and
\* the only-supports line alone for another extension, both without reading the
\* file, and the error line alone when reading tags or cover art raises.
C8_AllOrNothing ==
    i_pc # "start" =>
        /\ i_pc = "done"
        /\ \/ i_out = FullReport(i_file)
           \/ i_out \in {<<FileNotFoundLine>>, <<OnlySupportsLine>>, <<ErrorReadingFileLine>>}
        /\ (~i_file.exists => i_out = <<FileNotFoundLine>> /\ i_opened = 0)
        /\ (i_file.exists /\ Lower(Suffix(i_file.name)) \notin {EXT_M4A, EXT_MP4}
               => i_out = <<OnlySupportsLine>> /\ i_opened = 0)
        /\ (/\ i_file.exists /\ Lower(Suffix(i_file.name)) \in {EXT_M4A, EXT_MP4}
            /\ \/ i_file.open = "raises"
               \/ \E k \in 1..4 : TagRaises(i_file.tags[k])
               \/ i_file.cover = "corrupt"
            => i_out = <<ErrorReadingFileLine>>)

(***************************************************************************)
(* The scanner program: main's menu loop and the three reports.            *)
(* A handler's locals are kept until main goes round its loop again.  out  *)
(* holds the lines printed since the last input; the menu's own lines are  *)
(* not recorded.  The tree a report scans is chosen when the report starts.*)
(***************************************************************************)
Init ==
    /\ pc = "menu"
    /\ choice = <<>>
    /\ rounds = 0
    /\ mode = "none"
    /\ ended = "none"
    /\ fold \in BOOLEAN
    /\ audio_files = <<>>
    /\ idx = 0
    /\ quality_stats = EmptyStats
    /\ label_stats = <<>>
    /\ bitrate_groups = <<>>
    /\ total_size = 0
    /\ out = <<>>
    /\ opened = 0
    /\ statted = 0
    /\ COff /\ ROff /\ SOff /\ LOff /\ IOff

others == <<c_vars, r_vars, s_vars, l_vars, i_vars>>

\* what a scan can discover: the scans of the trees a root may hold
ReportTrees == TreesOf(ReportEntries, MaxFiles)
ScansFolding == { ScanAll(t, TRUE) : t \in ReportTrees }
ScansExact == { ScanAll(t, FALSE) : t \in ReportTrees }
Scans == IF fold THEN ScansFolding ELSE ScansExact

\* choice = input(...).strip(), and the locals of the handler it selects
Read(raw, m) ==
    /\ pc = "menu"
    /\ rounds < MaxRounds
    /\ choice' = Strip(raw)
    /\ rounds' = rounds + 1
    /\ mode' = m
    /\ UNCHANGED <<idx, quality_stats, label_stats, bitrate_groups, total_size, opened,
                   statted, fold, others>>

Enter(a, files) ==
    /\ pc' = a.pc
    /\ ended' = a.ended
    /\ out' = a.out
    /\ audio_files' = files

\* choice '1': check_audio_quality up to its loop (lines 75-105)
ChooseDetailed ==
    /\ pc = "menu"
    /\ \E raw \in RawChoices, files \in Scans :
        /\ Strip(raw) = <<"1">>
        /\ Read(raw, "detailed")
        /\ Enter(AfterScan(files, <<BannerLine, RuleLine>>, NoAudioLine,
                           <<FoundLine, ReportTitleLine, DashLine>>),
                 files)

\* choice '2': quick_quality_check up to its loop (lines 208-221)
ChooseQuick ==
    /\ pc = "menu"
    /\ \E raw \in RawChoices, files \in Scans :
        /\ Strip(raw) = <<"2">>
        /\ Read(raw, "quick")
        /\ Enter(AfterScan(files, <<>>, NoAudioLine, <<>>), files)

\* choice '3': check_specific_folder up to its loop (lines 156-185)
ChooseFolder ==
    /\ pc = "menu"
    /\ \E raw \in RawChoices, folder \in RawFolders, exists \in BOOLEAN, files \in Scans :
        /\ Strip(raw) = <<"3">>
        /\ Read(raw, "folder")
        /\ IF Strip(folder) = <<>>
           THEN Enter([pc |-> "returned", ended |-> "no_folder", out |-> <<NoFolderLine>>], <<>>)
           ELSE IF ~exists
           THEN Enter([pc |-> "returned", ended |-> "missing_folder",
                       out |-> <<MissingFolderLine>>], <<>>)
           ELSE Enter(AfterScan(files, <<CheckingLine, RuleLine>>, NoAudioFolderLine,
                                <<FoundLine>>),
                      files)

\* choice '4'
ChooseExit ==
    /\ pc = "menu"
    /\ \E raw \in RawChoices :
        /\ Strip(raw) = <<"4">>
        /\ Read(raw, "none")
        /\ Enter([pc |-> "exited", ended |-> "none", out |-> <<GoodbyeLine>>], <<>>)

\* any other choice
ChooseInvalid ==
    /\ pc = "menu"
    /\ \E raw \in RawChoices :
        /\ Strip(raw) \notin {<<"1">>, <<"2">>, <<"3">>, <<"4">>}
        /\ Read(raw, "none")
        /\ Enter([pc |-> "returned", ended |-> "none", out |-> <<InvalidLine>>], <<>>)

\* the report's locals as the loop bodies take them
Locals ==
    [stats |-> quality_stats, labels |-> label_stats, groups |-> bitrate_groups,
     total |-> total_size, out |-> out, opened |-> opened, statted |-> statted,
     crashed |-> FALSE]

\* one iteration of a report's loop, or the exception leaving it
Iterate(m, n) ==
    /\ pc = "loop"
    /\ mode = m
    /\ idx < Len(audio_files)
    /\ quality_stats' = n.stats
    /\ label_stats' = n.labels
    /\ bitrate_groups' = n.groups
    /\ total_size' = n.total
    /\ out' = n.out
    /\ opened' = n.opened
    /\ statted' = n.statted
    /\ idx' = IF n.crashed THEN idx ELSE idx + 1
    /\ pc' = IF n.crashed THEN "crashed" ELSE "loop"
    /\ ended' = IF n.crashed THEN "aborted" ELSE ended
    /\ UNCHANGED <<choice, rounds, mode, fold, audio_files, others>>

DetailedStep ==
    /\ idx < Len(audio_files)
    /\ Iterate("detailed", DetailedFile(Locals, audio_files[idx + 1]))

QuickStep ==
    /\ idx < Len(audio_files)
    /\ Iterate("quick", QuickFile(Locals, audio_files[idx + 1]))

FolderStep ==
    /\ idx < Len(audio_files)
    /\ Iterate("folder", FolderFile(Locals, audio_files[idx + 1]))

\* the lines after the loop, and the return to main
Finish(m, lines, nStat, crashed) ==
    /\ pc = "loop"
    /\ mode = m
    /\ idx = Len(audio_files)
    /\ out' = out \o lines
    /\ statted' = statted + nStat
    /\ pc' = IF crashed THEN "crashed" ELSE "returned"
    /\ ended' = IF crashed THEN "aborted" ELSE "complete"
    /\ UNCHANGED <<choice, rounds, mode, fold, audio_files, idx, quality_stats,
                   label_stats, bitrate_groups, total_size, opened, others>>

DetailedSummary == Finish("detailed", DetailedSummaryLines(quality_stats), 0, FALSE)

QuickSummary == Finish("quick", QuickSummaryLines(label_stats), 0, FALSE)

FolderSummary ==
    Finish("folder", FolderSummaryLines(bitrate_groups).lines,
           FolderSummaryLines(bitrate_groups).statted,
           FolderSummaryLines(bitrate_groups).crashed)

\* while True: the handler has returned, its locals are gone, and the menu is
\* printed again (lines 251-258)
Prompt ==
    /\ pc = "returned"
    /\ pc' = "menu"
    /\ mode' = "none"
    /\ ended' = "none"
    /\ audio_files' = <<>>
    /\ idx' = 0
    /\ quality_stats' = EmptyStats
    /\ label_stats' = <<>>
    /\ bitrate_groups' = <<>>
    /\ total_size' = 0
    /\ out' = <<>>
    /\ opened' = 0
    /\ statted' = 0
    /\ UNCHANGED <<choice, rounds, fold, others>>

Next ==
    \/ Prompt
    \/ ChooseDetailed
    \/ ChooseQuick
    \/ ChooseFolder
    \/ ChooseExit
    \/ ChooseInvalid
    \/ DetailedStep
    \/ QuickStep
    \/ FolderStep
    \/ DetailedSummary
    \/ QuickSummary
    \/ FolderSummary

Spec == Init /\ [][Next]_vars

Reports == {"detailed", "quick", "folder"}

RECURSIVE SumSeq(_)
SumSeq(s) == IF s = <<>> THEN 0 ELSE Head(s) + SumSeq(Tail(s))

StatsTotal(stats) == SumSeq([i \in 1..Len(StatKeys) |-> stats[StatKeys[i]]])

\* the files the report's table counts
TierTotal ==
    CASE mode = "detailed" -> StatsTotal(quality_stats)
      [] mode = "quick" -> SumSeq([i \in 1..Len(label_stats) |-> label_stats[i].count])
      [] mode = "folder" ->
            SumSeq([i \in 1..Len(bitrate_groups) |-> Len(bitrate_groups[i].files)])
      [] OTHER -> 0

\* C1: when a bulk report finishes, every discovered file has been counted in
\* exactly one tier, a file whose processing raised in "Unknown Quality" once, so
\* the tier counts sum to the number of discovered files.
C1_CountsSumToFiles ==
    ended = "complete" => TierTotal = Len(audio_files)

\* C2: an error raised while handling one file never ends a bulk report: the
\* report goes through every discovered file and runs to its end.
C2_ReportRunsToEnd ==
    /\ mode \in Reports => pc # "crashed" /\ ended # "aborted"
    /\ ended = "complete" => idx = Len(audio_files)

\* C5: on an empty set of discovered files every report mode prints the same
\* "No audio files found!" line last and does nothing more.
C5_SameMessage ==
    ended = "empty" => out[Len(out)] = NoAudioLine

\* C5, amended: on an empty set of discovered files each report mode prints its
\* own no-audio-files line last (the folder report's names the folder) and
\* returns to the menu with no file read, no counter set and no further line.
C5_EmptyStopsReport ==
    ended = "empty" =>
        /\ pc = "returned"
        /\ audio_files = <<>>
        /\ out = CASE mode = "detailed" -> <<BannerLine, RuleLine, NoAudioLine>>
                   [] mode = "quick" -> <<NoAudioLine>>
                   [] mode = "folder" -> <<CheckingLine, RuleLine, NoAudioFolderLine>>
        /\ opened = 0 /\ statted = 0 /\ idx = 0 /\ total_size = 0
        /\ quality_stats = EmptyStats /\ label_stats = <<>> /\ bitrate_groups = <<>>

C5_Witness ==
    /\ ended = "empty" /\ mode = "folder" /\ pc = "returned"
    /\ out = <<CheckingLine, RuleLine, NoAudioFolderLine>>

\* C7: the program ends only on input 4; inputs 1, 2 and 3 run the matching
\* report and come back to the menu whatever happens inside it; any other input
\* prints the invalid-choice line, runs no report and prompts again.
C7_MenuLoopsUntilExit ==
    /\ pc \in {"exited", "crashed"} => pc = "exited" /\ choice = <<"4">>
    /\ pc \notin {"menu", "exited"} /\ choice = <<"1">> => mode = "detailed"
    /\ pc \notin {"menu", "exited"} /\ choice = <<"2">> => mode = "quick"
    /\ pc \notin {"menu", "exited"} /\ choice = <<"3">> => mode = "folder"
    /\ pc \notin {"menu", "exited"} /\ choice \notin {<<"1">>, <<"2">>, <<"3">>} =>
          mode = "none" /\ pc = "returned" /\ out = <<InvalidLine>> /\ opened = 0

====
